---- MODULE Spec2Model ----
\* One invocation of the attachmentAV scan action: run() reads the inputs,
\* dispatches on the scan target, resolves it, sends the scan request(s) and
\* reports outputs / failure.  Every network and filesystem answer is chosen
\* by the environment (\E) at the step that consumes it.
EXTENDS Integers, Sequences, FiniteSets, TLC

\* ------------------------------------------------------------------ bounds
\* Largest "small" timeout / polling-interval value (seconds) the inputs draw.
MaxSeconds == 2
\* Largest number of GETs to the result endpoint one run may issue.
MaxPolls == 3
\* Duration (ms) of a slow result-endpoint round trip (a fast one takes 0 ms).
SlowFetchMs == 1000

\* ------------------------------------------------------------ plain values
\* JavaScript undefined / a missing header / an unset output.
NoValue == "<undefined>"
\* parseInt of a non-numeric string.  Genuine negative inputs behave like 0 in
\* every comparison of the program, so the value below zero is free to stand
\* for NaN; arithmetic and comparisons go through the operators that follow.
NaN == 0 - 1
\* core.getInput(name, {required: true}) of an input that is not supplied.
EmptyInput == 0 - 2

\* JS truthiness of a string
Truthy(s) == s # "" /\ s # NoValue

\* a * b in JS for the numbers of this program
JsMul(a, b) == IF a = NaN \/ b = NaN THEN NaN ELSE a * b
JsGt(a, b) == a # NaN /\ b # NaN /\ a > b
JsLt(a, b) == a # NaN /\ b # NaN /\ a < b
JsGe(a, b) == a # NaN /\ b # NaN /\ a >= b

\* Byte counts reach 5 TiB, beyond 32-bit integers: a size is mb * MB + b.
MB == 1024 * 1024
Sz(mb, b) == [mb |-> mb, b |-> b]
SzGt(s, t) == s.mb > t.mb \/ (s.mb = t.mb /\ s.b > t.b)
SzLe(s, t) == ~SzGt(s, t)
SzLt(s, t) == SzGt(t, s)
\* the byte count of a size below 2 GiB
Bytes(s) == s.mb * MB + s.b
\* the sizes just below, at and just above a threshold
Around(t) == {Sz(t.mb - 1, MB - 1), t, Sz(t.mb, 1)}

\* ------------------------------------------------------- program constants
MAX_SYNC_SIZE == Sz(10, 0)
MAX_ASYNC_SIZE == Sz(5 * 1024 * 1024, 0)
LOCAL_MAX_SYNC_SIZE == Sz(10, 0)
SYNC_DOWNLOAD_THRESHOLD == Sz(200, 0)
ONE_HOUR_SECONDS == 60 * 60

\* Error messages (shortened to their distinguishing text).
MsgRequiredInput == "Input required and not supplied"
MsgBadBoolean == "Input does not meet YAML 1.2 Core Schema specification"
MsgNoTarget == "One of local-file-path, artifact-id, or release-asset-id must be provided"
MsgManyTargets == "Only one of local-file-path, artifact-id, or release-asset-id can be provided"
MsgTimeoutRange == "timeout out of range"
MsgIntervalRange == "polling-interval out of range"
MsgUnexpectedNoTarget == "Unexpected error: no scan target provided"
MsgFileNotFound == "File not found"
MsgFsError == "ENOENT"
MsgOver5TB == "exceeds maximum supported size of 5TB"
MsgOverSyncLimit == "exceeds sync API limit of 10MB"
MsgLocalTooLarge == "Local files >10MB require async API, but local files cannot be directly accessed by attachmentAV"
MsgTokenRequired == "GitHub token is required for scanning artifacts"
MsgHostingApi == "HttpError"
MsgNoLocation == "Expected Location header in redirect response, but got none"
MsgExpectedRedirect == "Expected redirect response"
MsgFetchFailed == "fetch failed"
MsgScanApi == "AttachmentAV API error"
MsgAsyncApi == "AttachmentAV async API error"
MsgResultApi == "AttachmentAV result API error"
MsgBadJson == "Unexpected token in JSON"
MsgTimeout == "Timeout reached while waiting for scan results"
MsgMalwareDetected == "Malware detected in file"

ConfigMessages == {MsgRequiredInput, MsgBadBoolean, MsgNoTarget, MsgManyTargets,
                   MsgTimeoutRange, MsgIntervalRange}

\* ------------------------------------------------------------ input domains
TargetValues == {"", "x"}
TokenValues == {"", "ghp"}
SecondsValues == {EmptyInput, NaN, 0} \cup (1..MaxSeconds)
                   \cup {ONE_HOUR_SECONDS, ONE_HOUR_SECONDS + 1}
BooleanInputs == {"true", "false", "maybe"}

InputSpace == [localFilePath : TargetValues, artifactId : TargetValues,
               releaseAssetId : TargetValues, apiEndpoint : {"", "https://api"},
               apiKey : {"", "key"}, token : TokenValues,
               timeout : SecondsValues, pollingInterval : SecondsValues,
               failOnInfected : BooleanInputs]

\* -------------------------------------------------------- environment sets
FileSizes == {Sz(0, 0)} \cup Around(MAX_SYNC_SIZE) \cup Around(MAX_ASYNC_SIZE)
RemoteSizes == {Sz(0, 0)} \cup Around(SYNC_DOWNLOAD_THRESHOLD)
ScanStatuses == {200, 201, 204, 404, 500}
RedirectStatuses == {200, 299, 300, 302, 399, 400}
LocationValues == {NoValue, "", "https://signed"}
TraceIds == {"uuid-a", "uuid-b"}
FetchDurations == {0, SlowFetchMs}

\* A scan-service response body that parses as JSON.
Bodies == [status : {"clean", "infected", "no"}, finding : {NoValue, "", "X"},
           hasSize : BOOLEAN, realfiletype : {NoValue, "pdf"}]
NoResult == [status |-> NoValue, finding |-> NoValue, hasSize |-> FALSE,
             realfiletype |-> NoValue]
\* the size field of every body that has one
BodySize == 42
\* Number.prototype.toString of a non-negative integer
Digit == <<"0", "1", "2", "3", "4", "5", "6", "7", "8", "9">>
RECURSIVE NumberToString(_)
NumberToString(n) ==
  IF n < 10 THEN Digit[n + 1]
  ELSE NumberToString(n \div 10) \o Digit[(n % 10) + 1]

\* no response received yet
NoResponse == [status |-> 0, location |-> NoValue]

NoOutputs == [status |-> NoValue, fileSize |-> NoValue, finding |-> NoValue,
              realFileType |-> NoValue]

\* no response to the async submission yet
NoSubmitResponse == [neterr |-> FALSE, status |-> 0]
\* the entry of pollStatuses for a GET whose fetch rejected
NetworkError == 0

VARIABLES
  inputs,      \* the action's raw inputs
  pc,          \* position of run()
  handler,     \* the handler run() dispatched: "none", "local", "artifact", "asset"
  fsOps,       \* filesystem calls made so far
  calls,       \* network requests sent so far, in order
  size,        \* size of the target as resolved (stat / metadata)
  bufLen,      \* length of the buffer read from the local file
  downloadUrl, \* the URL returned by getActualDownloadUrl
  traceId,     \* the trace id generated for the async submission
  now,         \* Date.now(), ms
  startTime,   \* pollAsyncResult's startTime
  elapsed,     \* pollAsyncResult's elapsed
  sleeps,      \* number of completed sleep(pollingIntervalMs)
  result,      \* the scan response handed back to run()
  outputs,     \* values given to core.setOutput
  failed,      \* number of core.setFailed calls
  failMsg,     \* message of the last core.setFailed
  redirectResponse, \* the response getActualDownloadUrl received (history)
  submitResponse,   \* the response submitAsyncScan received (history)
  goneAt,           \* the filesystem call that found the local file absent,
                    \* NoValue when none did (history)
  postResponse,     \* the response to the run's scan POST, whatever the tier
                    \* (history)
  logged,           \* the expressions interpolated so far into log lines,
                    \* warnings, errors, failure messages and outputs
  pollStatuses,     \* what each GET of pollAsyncResult was answered, in order
                    \* (history; NetworkError when fetch rejected)
  readyAfter   \* polls the result endpoint answers "not ready" before the
               \* verdict exists (environment; MaxPolls: not within this run)

vars == <<inputs, pc, handler, fsOps, calls, size, bufLen, downloadUrl, traceId,
          now, startTime, elapsed, sleeps, result, outputs, failed, failMsg,
          redirectResponse, readyAfter, submitResponse, pollStatuses, logged,
          postResponse, goneAt>>

Init ==
  /\ inputs \in InputSpace
  /\ pc = "start"
  /\ handler = "none"
  /\ fsOps = <<>>
  /\ calls = <<>>
  /\ size = Sz(0, 0)
  /\ bufLen = Sz(0, 0)
  /\ downloadUrl = NoValue
  /\ traceId = NoValue
  /\ now = 0
  /\ startTime = 0
  /\ elapsed = 0
  /\ sleeps = 0
  /\ result = NoResult
  /\ outputs = NoOutputs
  /\ failed = 0
  /\ failMsg = NoValue
  /\ redirectResponse = NoResponse
  /\ readyAfter = 0
  /\ submitResponse = NoSubmitResponse
  /\ pollStatuses = <<>>
  /\ logged = {}
  /\ postResponse = NoSubmitResponse
  /\ goneAt = NoValue

\* ------------------------------------------------------------ what is logged
\* Each operator gives the expressions a function interpolates into the text
\* it emits (core.debug / info / warning / error, the message of an error that
\* reaches core.setFailed, core.setOutput), given the message of the error it
\* throws (NoValue when it returns).

\* handleLocalFilePath: the two lines before readFileAndCheckSize
HandleLocalFilePathLogs == {"localFilePath", "process.cwd()"}
\* readFileAndCheckSize: the messages of its errors
ReadFileAndCheckSizeLogs(err) ==
  CASE err = MsgFileNotFound -> {"filePath"}
    [] err \in {MsgOver5TB, MsgOverSyncLimit} -> {"formatBytes(size)"}
    [] err = MsgFsError -> {"error.message"}
    [] OTHER -> {}
\* handleLocalFilePath: File size, once the file is read
FileSizeLogs(read) == IF read THEN {"size"} ELSE {}
\* scanFileSync
ScanFileSyncLogs(err) ==
  {"syncUrl", "buffer.length", "apiKey.length"}
    \cup CASE err = MsgFetchFailed -> {"error", "error.message", "error.stack"}
           [] err = MsgScanApi -> {"response.status", "response.statusText", "errorText",
                                   "error", "error.message", "error.stack"}
           [] err = MsgBadJson -> {"response.status", "response.statusText",
                                   "error", "error.message", "error.stack"}
           [] OTHER -> {"response.status", "response.statusText", "JSON.stringify(result)"}
\* scanFileSyncDownload: status codes and response bodies
ScanFileSyncDownloadLogs(err) ==
  CASE err = MsgFetchFailed -> {"error", "error.message"}
    [] err = MsgScanApi -> {"response.status", "response.statusText", "errorText",
                            "error", "error.message"}
    [] err = MsgBadJson -> {"response.status", "response.statusText",
                            "error", "error.message"}
    [] OTHER -> {"response.status", "response.statusText", "JSON.stringify(result)"}
\* handleArtifact / handleReleaseAsset: the first line
HandleArtifactLogs == {"id"}
HandleReleaseAssetLogs == {"id"}
\* getArtifact and the Artifact: line of handleArtifact
GetArtifactLogs(err) ==
  {"artifactId", "owner", "repo"}
    \cup IF err = NoValue THEN {"data.name", "data.size_in_bytes", "artifact.name",
                                "artifact.size_in_bytes"}
         ELSE {"error", "error.message"}
\* getReleaseAsset and the Release asset: line of handleReleaseAsset
GetReleaseAssetLogs(err) ==
  {"assetId", "owner", "repo"}
    \cup IF err = NoValue THEN {"data.name", "data.size", "asset.name", "asset.size"}
         ELSE {"error", "error.message"}
\* getActualDownloadUrl
GetActualDownloadUrlLogs(err) ==
  {"url"}
    \cup CASE err = MsgExpectedRedirect -> {"response.status", "response.statusText",
                                            "error", "error.message"}
           [] err \in {MsgNoLocation, MsgFetchFailed} -> {"error", "error.message"}
           [] OTHER -> {}
\* submitAndPollAsyncScan: Generated trace ID
SubmitAndPollLogs == {"traceId"}
\* variant of SubmitAsyncScanLogs: the whole request written to the debug log
SubmitAsyncScanLogs_Request(err) == {"asyncUrl", "JSON.stringify(request)"}
\* submitAsyncScan
SubmitAsyncScanLogs(err) ==
  {"asyncUrl", "request.trace_id", "request.download_url"}
    \cup CASE err = MsgFetchFailed -> {"error", "error.message"}
           [] err = MsgAsyncApi -> {"response.status", "response.statusText", "errorText",
                                    "error", "error.message"}
           [] OTHER -> {"response.status", "response.statusText"}
\* pollAsyncResult: Polling for results
PollEnterLogs == {"timeoutSeconds", "pollingIntervalSeconds"}
\* pollAsyncResult: one evaluation of the loop (entered: the while condition
\* held; returned: the body was parsed and returned)
PollIterationLogs(entered, err, returned) ==
  IF ~entered THEN {"timeoutSeconds"}
  ELSE {"elapsed"}
         \cup CASE err = MsgResultApi -> {"response.status", "response.statusText",
                                          "errorText"}
                [] err \in {MsgFetchFailed, MsgBadJson} -> {"error.message"}
                [] OTHER -> IF returned THEN {"JSON.stringify(result)"} ELSE {}
\* run(): the outputs and the lines after them
SetOutputsLogs(r) ==
  IF ~r.hasSize THEN {"result.status", "TypeError"}
  ELSE {"result.status", "result.size"}
         \cup (IF Truthy(r.finding) THEN {"result.finding"} ELSE {})
         \cup (IF Truthy(r.realfiletype) THEN {"result.realfiletype"} ELSE {})
\* run(): the final if / else-if chain
DecideLogs(r, failOnInfected) ==
  IF ((r.status = "infected" /\ failOnInfected) \/ r.status = "no") /\ Truthy(r.finding)
  THEN {"result.finding"} ELSE {}

\* core.setFailed(message) followed by return: the catch blocks of run()
SetFailed(msg) ==
  /\ failed' = failed + 1
  /\ failMsg' = msg
  /\ pc' = "done"

\* a request record
Call(to, url, auth, trace) == [to |-> to, url |-> url, auth |-> auth, trace |-> trace, at |-> now]

\* response.ok
Ok(status) == status >= 200 /\ status <= 299

\* ---------------------------------------------------------------- getInputs
\* [localFilePath, artifactId, releaseAssetId].filter((input) => input).length
InputCount(i) ==
  Cardinality({k \in {"localFilePath", "artifactId", "releaseAssetId"} : Truthy(i[k])})

NoTargetGiven(n) == n = 0
\* variant of TooManyTargets: the limit off by one
TooManyTargets_OffByOne(n) == n > 2
TooManyTargets(n) == n > 1
TimeoutOutOfRange(t) == JsGt(t, ONE_HOUR_SECONDS) \/ JsLt(t, 1)
IntervalOutOfRange(t) == JsGt(t, ONE_HOUR_SECONDS) \/ JsLt(t, 1)

\* The message of the error getInputs throws on inputs i, NoValue when it returns.
GetInputsError(i) ==
  CASE i.apiEndpoint = "" -> MsgRequiredInput
    [] i.apiKey = "" -> MsgRequiredInput
    [] i.timeout = EmptyInput -> MsgRequiredInput
    [] i.pollingInterval = EmptyInput -> MsgRequiredInput
    [] i.failOnInfected \notin {"true", "false"} -> MsgBadBoolean
    [] NoTargetGiven(InputCount(i)) -> MsgNoTarget
    [] TooManyTargets(InputCount(i)) -> MsgManyTargets
    [] TimeoutOutOfRange(i.timeout) -> MsgTimeoutRange
    [] IntervalOutOfRange(i.pollingInterval) -> MsgIntervalRange
    [] OTHER -> NoValue

\* core.getBooleanInput("fail-on-infected") of an accepted value
FailOnInfected == inputs.failOnInfected = "true"

\* run(): inputs = getInputs(), with its catch
GetInputs ==
  /\ pc = "start"
  /\ IF GetInputsError(inputs) # NoValue
       THEN SetFailed(GetInputsError(inputs))
       ELSE /\ pc' = "dispatch"
            /\ UNCHANGED <<failed, failMsg>>
  /\ UNCHANGED <<goneAt, postResponse, submitResponse, pollStatuses, redirectResponse, readyAfter, inputs, handler, fsOps, calls, size, bufLen, downloadUrl, traceId,
                 now, startTime, elapsed, sleeps, result, outputs>>
  /\ logged' = logged

\* variant of HandlerEntry: the local branch calls handleReleaseAsset
HandlerEntry_LocalAsAsset(target) ==
  CASE target = "artifact" -> "artifact"
    [] OTHER -> "asset"
\* where the handler function called for a target begins: handleLocalFilePath,
\* handleArtifact, handleReleaseAsset
HandlerEntry(target) ==
  CASE target = "local" -> "fs_access"
    [] target = "artifact" -> "artifact"
    [] OTHER -> "asset"

\* run(): the if / else-if chain over the three targets
Dispatch ==
  /\ pc = "dispatch"
  /\ IF Truthy(inputs.localFilePath)
       THEN handler' = "local" /\ pc' = HandlerEntry("local") /\ UNCHANGED <<failed, failMsg>>
       ELSE IF Truthy(inputs.artifactId)
       THEN handler' = "artifact" /\ pc' = HandlerEntry("artifact")
              /\ UNCHANGED <<failed, failMsg>>
       ELSE IF Truthy(inputs.releaseAssetId)
       THEN handler' = "asset" /\ pc' = HandlerEntry("asset") /\ UNCHANGED <<failed, failMsg>>
       ELSE handler' = handler /\ SetFailed(MsgUnexpectedNoTarget)
  /\ UNCHANGED <<goneAt, postResponse, submitResponse, pollStatuses, redirectResponse, readyAfter, inputs, fsOps, calls, size, bufLen, downloadUrl, traceId,
                 now, startTime, elapsed, sleeps, result, outputs>>
  /\ logged' = logged

\* ------------------------------------------------------------- responses
\* What one fetch() can come back with: a network-layer error, or a status
\* with a body that does or does not parse as JSON.
Responses(statuses) ==
  {[neterr |-> TRUE, status |-> 0, parses |-> FALSE, body |-> NoResult]}
  \cup {[neterr |-> FALSE, status |-> st, parses |-> FALSE, body |-> NoResult] :
          st \in statuses}
  \cup {[neterr |-> FALSE, status |-> st, parses |-> TRUE, body |-> b] :
          st \in statuses, b \in Bodies}

\* a fetch() whose body is never parsed as JSON
StatusResponses(statuses) ==
  {[neterr |-> TRUE, status |-> 0, parses |-> FALSE, body |-> NoResult]}
  \cup {[neterr |-> FALSE, status |-> st, parses |-> FALSE, body |-> NoResult] :
          st \in statuses}

\* an async function's outcome: a thrown error (err) or a returned value (val)
Err(m) == [err |-> m, val |-> NoResult]
Val(b) == [err |-> NoValue, val |-> b]

\* ------------------------------------------------- readFileAndCheckSize
Exceeds5TB(s) == SzGt(s, MAX_ASYNC_SIZE)
\* variant of ExceedsSyncLimit: >= instead of >
ExceedsSyncLimit_Closed(s) == ~SzLt(s, MAX_SYNC_SIZE)
ExceedsSyncLimit(s) == SzGt(s, MAX_SYNC_SIZE)

\* variant of AccessThrows: the existence check is not made
AccessThrows_Never(exists) == FALSE
\* fs.access rejects when the file does not exist, and the catch throws
AccessThrows(exists) == ~exists

\* await fs.access(absolutePath)
FsAccess ==
  /\ pc = "fs_access"
  /\ fsOps' = Append(fsOps, "access")
  /\ \E exists \in BOOLEAN :
       /\ goneAt' = IF exists THEN goneAt ELSE "access"
       /\ IF AccessThrows(exists)
          THEN SetFailed(MsgFileNotFound)
          ELSE pc' = "fs_stat" /\ UNCHANGED <<failed, failMsg>>
  /\ UNCHANGED <<postResponse, submitResponse, pollStatuses, redirectResponse, readyAfter, inputs, handler, calls, size, bufLen, downloadUrl, traceId,
                 now, startTime, elapsed, sleeps, result, outputs>>
  /\ logged' = logged \cup (HandleLocalFilePathLogs \cup ReadFileAndCheckSizeLogs(IF pc' = "done" THEN failMsg' ELSE NoValue))

\* await fs.stat(absolutePath) and the two size checks
FsStat ==
  /\ pc = "fs_stat"
  /\ fsOps' = Append(fsOps, "stat")
  /\ \E gone \in BOOLEAN, s \in FileSizes :
       IF gone
       THEN SetFailed(MsgFsError) /\ size' = size /\ goneAt' = "stat"
       ELSE /\ size' = s
            /\ goneAt' = goneAt
            /\ IF Exceeds5TB(s) THEN SetFailed(MsgOver5TB)
               ELSE IF ExceedsSyncLimit(s) THEN SetFailed(MsgOverSyncLimit)
               ELSE pc' = "fs_read" /\ UNCHANGED <<failed, failMsg>>
  /\ UNCHANGED <<postResponse, submitResponse, pollStatuses, redirectResponse, readyAfter, inputs, handler, calls, bufLen, downloadUrl, traceId,
                 now, startTime, elapsed, sleeps, result, outputs>>
  /\ logged' = logged \cup ReadFileAndCheckSizeLogs(IF pc' = "done" THEN failMsg' ELSE NoValue)

\* lengths the file can have when it is read: as at stat, truncated, or grown
\* past the limit
ReadLengths(s) == {s, Sz(0, 0), Sz(MAX_SYNC_SIZE.mb, 1)}

\* await fs.readFile(absolutePath): the file is whatever it is by now
FsReadFile ==
  /\ pc = "fs_read"
  /\ fsOps' = Append(fsOps, "readFile")
  /\ \E gone \in BOOLEAN, len \in ReadLengths(size) :
       IF gone
       THEN SetFailed(MsgFsError) /\ bufLen' = bufLen /\ goneAt' = "readFile"
       ELSE bufLen' = len /\ pc' = "local_tier" /\ UNCHANGED <<failed, failMsg, goneAt>>
  /\ UNCHANGED <<postResponse, submitResponse, pollStatuses, redirectResponse, readyAfter, inputs, handler, calls, size, downloadUrl, traceId,
                 now, startTime, elapsed, sleeps, result, outputs>>
  /\ logged' = logged \cup (ReadFileAndCheckSizeLogs(IF pc' = "done" THEN failMsg' ELSE NoValue) \cup FileSizeLogs(pc' # "done"))

\* ------------------------------------------------------ handleLocalFilePath
FitsSyncApi(s) == SzLe(s, LOCAL_MAX_SYNC_SIZE)

\* variant of ScanFileSyncResult: the status of the response is not looked at
ScanFileSyncResult_AnyStatus(r) ==
  IF r.neterr THEN Err(MsgFetchFailed)
  ELSE IF ~r.parses THEN Err(MsgBadJson)
  ELSE Val(r.body)
\* scanFileSync: the outcome of the POST given its response
ScanFileSyncResult(r) ==
  IF r.neterr THEN Err(MsgFetchFailed)
  ELSE IF ~Ok(r.status) THEN Err(MsgScanApi)
  ELSE IF ~r.parses THEN Err(MsgBadJson)
  ELSE Val(r.body)

\* handleLocalFilePath after readFileAndCheckSize: tier check, then scanFileSync
ScanLocalFile ==
  /\ pc = "local_tier"
  /\ IF FitsSyncApi(size)
       THEN /\ calls' = Append(calls, Call("sync_binary", NoValue, NoValue, NoValue))
            /\ \E r \in Responses(ScanStatuses) :
                 LET o == ScanFileSyncResult(r) IN
                 /\ postResponse' = [neterr |-> r.neterr, status |-> r.status]
                 /\ IF o.err # NoValue
                    THEN SetFailed(o.err) /\ result' = result
                    ELSE result' = o.val /\ pc' = "outputs" /\ UNCHANGED <<failed, failMsg>>
       ELSE SetFailed(MsgLocalTooLarge) /\ UNCHANGED <<calls, result, postResponse>>
  /\ UNCHANGED <<goneAt, submitResponse, pollStatuses, redirectResponse, readyAfter, inputs, handler, fsOps, size, bufLen, downloadUrl, traceId,
                 now, startTime, elapsed, sleeps, outputs>>
  /\ logged' = logged \cup (IF FitsSyncApi(size) THEN ScanFileSyncLogs(IF pc' = "done" THEN failMsg' ELSE NoValue) ELSE {})

\* ----------------------------------------------- hosting API (github.ts)
ArchiveDownloadUrl == "https://api.github/artifacts/zip"
AssetUrl == "https://api.github/releases/assets/id"
BrowserDownloadUrl == "https://github/releases/download/file"

\* variant of ArtifactTokenMissing: the check left out
ArtifactTokenMissing_Never(token) == FALSE
\* handleArtifact: the token check
ArtifactTokenMissing(token) == ~Truthy(token)

\* handleArtifact up to getArtifact's answer
GetArtifact ==
  /\ pc = "artifact"
  /\ IF ArtifactTokenMissing(inputs.token)
       THEN SetFailed(MsgTokenRequired) /\ UNCHANGED <<calls, size>>
       ELSE /\ calls' = Append(calls, Call("get_artifact", NoValue, inputs.token, NoValue))
            /\ \E ok \in BOOLEAN, s \in RemoteSizes :
                 IF ok
                 THEN size' = s /\ pc' = "redirect" /\ UNCHANGED <<failed, failMsg>>
                 ELSE SetFailed(MsgHostingApi) /\ size' = size
  /\ UNCHANGED <<goneAt, postResponse, submitResponse, pollStatuses, redirectResponse, readyAfter, inputs, handler, fsOps, bufLen, downloadUrl, traceId,
                 now, startTime, elapsed, sleeps, result, outputs>>
  /\ logged' = logged \cup (HandleArtifactLogs \cup IF ArtifactTokenMissing(inputs.token) THEN {} ELSE GetArtifactLogs(IF pc' = "done" THEN failMsg' ELSE NoValue))

\* handleReleaseAsset up to getReleaseAsset's answer
GetReleaseAsset ==
  /\ pc = "asset"
  /\ calls' = Append(calls, Call("get_release_asset", NoValue, inputs.token, NoValue))
  /\ \E ok \in BOOLEAN, s \in RemoteSizes :
       IF ok
       THEN size' = s /\ pc' = "redirect" /\ UNCHANGED <<failed, failMsg>>
       ELSE SetFailed(MsgHostingApi) /\ size' = size
  /\ UNCHANGED <<goneAt, postResponse, submitResponse, pollStatuses, redirectResponse, readyAfter, inputs, handler, fsOps, bufLen, downloadUrl, traceId,
                 now, startTime, elapsed, sleeps, result, outputs>>
  /\ logged' = logged \cup (HandleReleaseAssetLogs \cup GetReleaseAssetLogs(IF pc' = "done" THEN failMsg' ELSE NoValue))

\* ------------------------------------------------- getActualDownloadUrl
\* variant of IsRedirect: every status below 400 taken for a redirect
IsRedirect_NoLowerBound(status) == status < 400
IsRedirect(status) == status >= 300 /\ status < 400
LocationMissing(location) == ~Truthy(location)

\* variant of ActualDownloadUrl: an answer that is no redirect is taken to be
\* the file itself, and the URL that was asked is returned
ActualDownloadUrl_Lenient(status, location) ==
  IF IsRedirect(status)
  THEN IF LocationMissing(location) THEN [err |-> MsgNoLocation, url |-> NoValue]
       ELSE [err |-> NoValue, url |-> location]
  ELSE [err |-> NoValue, url |-> ArchiveDownloadUrl]
\* the outcome of getActualDownloadUrl given the response's status and its
\* headers.get("Location")
ActualDownloadUrl(status, location) ==
  IF IsRedirect(status)
  THEN IF LocationMissing(location) THEN [err |-> MsgNoLocation, url |-> NoValue]
       ELSE [err |-> NoValue, url |-> location]
  ELSE [err |-> MsgExpectedRedirect, url |-> NoValue]

\* the URL each handler hands to getActualDownloadUrl
\* variant of MetadataUrl: the release asset's browser download URL is resolved
MetadataUrl_Browser == IF handler = "artifact" THEN ArchiveDownloadUrl ELSE BrowserDownloadUrl
MetadataUrl == IF handler = "artifact" THEN ArchiveDownloadUrl ELSE AssetUrl

\* variant of RedirectOption: fetch follows the redirect itself
RedirectOption_Follow == "follow"
\* the redirect option of the adapter's fetch
RedirectOption == "manual"

\* the URLs one fetch(url) of the adapter requests, given what the first
\* request is answered: with "manual" the one it is given, with "follow" the
\* redirect target as well
FetchedUrls(url, neterr, status, location) ==
  IF RedirectOption = "follow" /\ ~neterr /\ status >= 300 /\ status < 400
       /\ Truthy(location)
  THEN <<url, location>>
  ELSE <<url>>

GetActualDownloadUrl ==
  /\ pc = "redirect"
  /\ \E neterr \in BOOLEAN, status \in RedirectStatuses, location \in LocationValues :
       LET o == ActualDownloadUrl(status, location)
           urls == FetchedUrls(MetadataUrl, neterr, status, location)
       IN
       /\ calls' = calls \o [k \in 1..Len(urls) |->
                      Call("redirect", urls[k],
                           IF Truthy(inputs.token) THEN inputs.token ELSE NoValue, NoValue)]
       /\ IF neterr
          THEN /\ SetFailed(MsgFetchFailed)
               /\ UNCHANGED <<downloadUrl, redirectResponse>>
          ELSE /\ redirectResponse' = [status |-> status, location |-> location]
               /\ IF o.err # NoValue THEN SetFailed(o.err) /\ downloadUrl' = downloadUrl
                  ELSE downloadUrl' = o.url /\ pc' = "tier" /\ UNCHANGED <<failed, failMsg>>
  /\ UNCHANGED <<goneAt, postResponse, submitResponse, pollStatuses, readyAfter, inputs, handler, fsOps, size, bufLen, traceId,
                 now, startTime, elapsed, sleeps, result, outputs>>
  /\ logged' = logged \cup GetActualDownloadUrlLogs(IF pc' = "done" THEN failMsg' ELSE NoValue)

\* ------------------------------------------------------- tier selection
\* variant of ArtifactUsesSync: <= instead of <
ArtifactUsesSync_Closed(s) == SzLe(s, SYNC_DOWNLOAD_THRESHOLD)
ArtifactUsesSync(s) == SzLt(s, SYNC_DOWNLOAD_THRESHOLD)
AssetUsesSync(s) == SzLt(s, SYNC_DOWNLOAD_THRESHOLD)
UsesSyncDownload == IF handler = "artifact" THEN ArtifactUsesSync(size) ELSE AssetUsesSync(size)

\* scanFileSyncDownload: one POST to /v1/scan/sync/download, a non-2xx answer
\* is an error, a 2xx body is parsed as the outcome
ScanFileSyncDownloadResult(r) ==
  IF r.neterr THEN Err(MsgFetchFailed)
  ELSE IF ~Ok(r.status) THEN Err(MsgScanApi)
  ELSE IF ~r.parses THEN Err(MsgBadJson)
  ELSE Val(r.body)

\* the sync branch of handleArtifact / handleReleaseAsset
ScanFileSyncDownload ==
  /\ pc = "tier"
  /\ UsesSyncDownload
  /\ calls' = Append(calls, Call("sync_download", downloadUrl, NoValue, NoValue))
  /\ \E r \in Responses(ScanStatuses) :
       LET o == ScanFileSyncDownloadResult(r) IN
       /\ postResponse' = [neterr |-> r.neterr, status |-> r.status]
       /\ IF o.err # NoValue
          THEN SetFailed(o.err) /\ result' = result
          ELSE result' = o.val /\ pc' = "outputs" /\ UNCHANGED <<failed, failMsg>>
  /\ UNCHANGED <<goneAt, submitResponse, pollStatuses, redirectResponse, readyAfter, inputs, handler, fsOps, size, bufLen, downloadUrl, traceId,
                 now, startTime, elapsed, sleeps, outputs>>
  /\ logged' = logged \cup ScanFileSyncDownloadLogs(IF pc' = "done" THEN failMsg' ELSE NoValue)

\* ------------------------------------------------- submitAndPollAsyncScan
\* downloadHeaders.Authorization, NoValue when download_headers is undefined
DownloadAuthorization(token) == IF Truthy(token) THEN "Bearer " \o token ELSE NoValue

\* variant of SubmitRejected: only server errors are rejected
SubmitRejected_ServerErrors(status) == status >= 500
\* submitAsyncScan: the status check
SubmitRejected(status) == status # 204 /\ status # 201 /\ ~Ok(status)

\* the async branch: generateTraceId, then submitAsyncScan
SubmitAsyncScan ==
  /\ pc = "tier"
  /\ ~UsesSyncDownload
  /\ \E id \in TraceIds, r \in StatusResponses(ScanStatuses), k \in 0..MaxPolls :
       /\ traceId' = id
       /\ submitResponse' = [neterr |-> r.neterr, status |-> r.status]
       /\ postResponse' = [neterr |-> r.neterr, status |-> r.status]
       /\ readyAfter' = IF ~r.neterr /\ ~SubmitRejected(r.status) THEN k ELSE readyAfter
       /\ calls' = Append(calls, Call("async_submit", downloadUrl,
                      DownloadAuthorization(inputs.token), id))
       /\ IF r.neterr THEN SetFailed(MsgFetchFailed)
          ELSE IF SubmitRejected(r.status) THEN SetFailed(MsgAsyncApi)
          ELSE pc' = "poll_enter" /\ UNCHANGED <<failed, failMsg>>
  /\ UNCHANGED <<goneAt, pollStatuses, redirectResponse, inputs, handler, fsOps, size, bufLen, downloadUrl,
                 now, startTime, elapsed, sleeps, result, outputs>>
  /\ logged' = logged \cup (SubmitAndPollLogs \cup SubmitAsyncScanLogs(IF pc' = "done" THEN failMsg' ELSE NoValue))

\* ---------------------------------------------------------- pollAsyncResult
TimeoutMs == JsMul(inputs.timeout, 1000)
PollingIntervalMs == JsMul(inputs.pollingInterval, 1000)

\* variant of SleepDuration: the timer fires at once
SleepDuration_None(ms) == 0
\* sleep(ms): setTimeout fires after ms milliseconds (after 1 ms for NaN)
SleepDuration(ms) == IF ms = NaN THEN 1 ELSE ms

\* variant of LoopCondition: loop while elapsed < timeoutMs
LoopCondition_Below(e, timeoutMs) == JsLt(e, timeoutMs)
\* the while condition of the poll loop
LoopCondition(e, timeoutMs) == JsGe(e, timeoutMs)

\* variant of NotReady: a server error is waited out as well
NotReady_ServerError(status) == status = 404 \/ status >= 500
\* the poll loop: the result does not exist yet
NotReady(status) == status = 404
\* the poll loop: any other answer that is not ok is an error
ResultRejected(status) == ~Ok(status)

\* What the result endpoint can answer to the next GET: 404 while the verdict
\* does not exist yet, never 404 once it does.
ResultStatuses ==
  IF Cardinality({i \in 1..Len(calls) : calls[i].to = "async_result"}) < readyAfter
  THEN {404, 500}
  ELSE ScanStatuses \ {404}

\* variant of PollTraceId: the polls use a trace id of their own
PollTraceId_Regenerated(id) == CHOOSE t \in TraceIds : t # id
\* the trace id submitAndPollAsyncScan hands to pollAsyncResult, which puts
\* it in the query of every GET
PollTraceId(id) == id

\* GETs sent to the result endpoint so far
ResultGets == {i \in 1..Len(calls) : calls[i].to = "async_result"}

\* the seconds named in the message of the timeout error
TimeoutReportedSeconds == inputs.timeout

\* startTime = Date.now(); let elapsed = 0
PollEnter ==
  /\ pc = "poll_enter"
  /\ startTime' = now
  /\ elapsed' = 0
  /\ pc' = "poll"
  /\ UNCHANGED <<goneAt, postResponse, submitResponse, pollStatuses, redirectResponse, readyAfter, inputs, handler, fsOps, calls, size, bufLen, downloadUrl, traceId,
                 now, sleeps, result, outputs, failed, failMsg>>
  /\ logged' = logged \cup PollEnterLogs

\* One evaluation of the while condition and, when it holds, one pass through
\* the loop body: the GET, elapsed = Date.now() - startTime, then sleep and
\* continue (404), throw (other non-2xx) or return the parsed body.  When the
\* condition fails the function throws the timeout error.
PollIteration ==
  /\ pc = "poll"
  /\ IF LoopCondition(elapsed, TimeoutMs)
       THEN /\ Cardinality(ResultGets) < MaxPolls
            /\ calls' = Append(calls, Call("async_result", NoValue, NoValue,
                                         PollTraceId(traceId)))
            /\ \E r \in Responses(ResultStatuses), d \in FetchDurations :
                 IF r.neterr
                 THEN /\ now' = now + d
                      /\ pollStatuses' = Append(pollStatuses, NetworkError)
                      /\ SetFailed(MsgFetchFailed)
                      /\ UNCHANGED <<elapsed, sleeps, result>>
                 ELSE /\ elapsed' = (now + d) - startTime
                      /\ pollStatuses' = Append(pollStatuses, r.status)
                      /\ IF NotReady(r.status)
                         THEN /\ now' = now + d + SleepDuration(PollingIntervalMs)
                              /\ sleeps' = sleeps + 1
                              /\ UNCHANGED <<pc, result, failed, failMsg>>
                         ELSE /\ now' = now + d
                              /\ sleeps' = sleeps
                              /\ IF ResultRejected(r.status)
                                 THEN SetFailed(MsgResultApi) /\ result' = result
                                 ELSE IF ~r.parses
                                 THEN SetFailed(MsgBadJson) /\ result' = result
                                 ELSE /\ result' = r.body
                                      /\ pc' = "outputs"
                                      /\ UNCHANGED <<failed, failMsg>>
       ELSE /\ SetFailed(MsgTimeout)
            /\ UNCHANGED <<calls, now, elapsed, sleeps, result, pollStatuses>>
  /\ UNCHANGED <<goneAt, postResponse, submitResponse, redirectResponse, readyAfter, inputs, handler, fsOps, size, bufLen, downloadUrl, traceId,
                 startTime, outputs>>
  /\ logged' = logged \cup PollIterationLogs(LoopCondition(elapsed, TimeoutMs), IF pc' = "done" THEN failMsg' ELSE NoValue, pc' = "outputs")

\* ------------------------------------------------------- run(): reporting
\* core.setOutput calls of run(); result.size.toString() throws a TypeError,
\* outside every try block, when the response carries no size
SetOutputs ==
  /\ pc = "outputs"
  /\ IF ~result.hasSize
       THEN /\ outputs' = [outputs EXCEPT !.status = result.status]
            /\ pc' = "crashed"
       ELSE /\ outputs' = [status |-> result.status,
                           fileSize |-> NumberToString(BodySize),
                           finding |-> IF Truthy(result.finding) THEN result.finding
                                       ELSE NoValue,
                           realFileType |-> IF Truthy(result.realfiletype)
                                            THEN result.realfiletype ELSE NoValue]
            /\ pc' = "decide"
  /\ UNCHANGED <<goneAt, postResponse, submitResponse, pollStatuses, redirectResponse, readyAfter, inputs, handler, fsOps, calls, size, bufLen, downloadUrl, traceId,
                 now, startTime, elapsed, sleeps, result, failed, failMsg>>
  /\ logged' = logged \cup SetOutputsLogs(result)

\* variant of FailsRun: every status but clean fails the run
FailsRun_NotClean(status, failOnInfected) == status # "clean" /\ failOnInfected
\* result.status === "infected" && failOnInfected
FailsRun(status, failOnInfected) == status = "infected" /\ failOnInfected

\* the final if / else-if chain of run()
Decide ==
  /\ pc = "decide"
  /\ IF FailsRun(result.status, FailOnInfected)
       THEN SetFailed(MsgMalwareDetected)
       ELSE pc' = "done" /\ UNCHANGED <<failed, failMsg>>
  /\ UNCHANGED <<goneAt, postResponse, submitResponse, pollStatuses, redirectResponse, readyAfter, inputs, handler, fsOps, calls, size, bufLen, downloadUrl, traceId,
                 now, startTime, elapsed, sleeps, result, outputs>>
  /\ logged' = logged \cup DecideLogs(result, FailOnInfected)

Next ==
  \/ GetInputs
  \/ Dispatch
  \/ FsAccess
  \/ FsStat
  \/ FsReadFile
  \/ ScanLocalFile
  \/ GetArtifact
  \/ GetReleaseAsset
  \/ GetActualDownloadUrl
  \/ ScanFileSyncDownload
  \/ SubmitAsyncScan
  \/ PollEnter
  \/ PollIteration
  \/ SetOutputs
  \/ Decide

Spec == Init /\ [][Next]_vars

\* ------------------------------------------- pollAsyncResult called directly
\* The function's own arguments: every timeout the loop condition tells apart
\* (0 is the one the loop body runs for) and every kind of interval.
PollTimeouts == {NaN, 0} \cup (1..MaxSeconds)
PollIntervals == {NaN} \cup (1..MaxSeconds)

InitPoll ==
  /\ inputs \in [localFilePath : {""}, artifactId : {"x"}, releaseAssetId : {""},
                 apiEndpoint : {"https://api"}, apiKey : {"key"}, token : {"ghp"},
                 timeout : PollTimeouts, pollingInterval : PollIntervals,
                 failOnInfected : {"true"}]
  /\ pc = "poll_enter"
  /\ handler = "artifact"
  /\ fsOps = <<>>
  /\ calls = <<>>
  /\ size = Sz(0, 0)
  /\ bufLen = Sz(0, 0)
  /\ downloadUrl = NoValue
  /\ traceId \in TraceIds
  /\ now = 0
  /\ startTime = 0
  /\ elapsed = 0
  /\ sleeps = 0
  /\ result = NoResult
  /\ outputs = NoOutputs
  /\ failed = 0
  /\ failMsg = NoValue
  /\ redirectResponse = NoResponse
  /\ readyAfter \in 0..MaxPolls
  /\ submitResponse = NoSubmitResponse
  /\ pollStatuses = <<>>
  /\ logged = {}
  /\ postResponse = NoSubmitResponse
  /\ goneAt = NoValue

NextPoll ==
  \/ PollEnter
  \/ PollIteration

PollSpec == InitPoll /\ [][NextPoll]_vars

\* ------------------------------------ submitAndPollAsyncScan called directly
\* Its arguments: a resolved download URL, the token or none, and the timeouts
\* of PollSpec.
InitAsync ==
  /\ inputs \in [localFilePath : {""}, artifactId : {"x"}, releaseAssetId : {""},
                 apiEndpoint : {"https://api"}, apiKey : {"key"}, token : TokenValues,
                 timeout : PollTimeouts, pollingInterval : PollIntervals,
                 failOnInfected : {"true"}]
  /\ pc = "tier"
  /\ handler = "artifact"
  /\ fsOps = <<>>
  /\ calls = <<>>
  /\ size = SYNC_DOWNLOAD_THRESHOLD
  /\ bufLen = Sz(0, 0)
  /\ downloadUrl = "https://signed"
  /\ traceId = NoValue
  /\ now = 0
  /\ startTime = 0
  /\ elapsed = 0
  /\ sleeps = 0
  /\ result = NoResult
  /\ outputs = NoOutputs
  /\ failed = 0
  /\ failMsg = NoValue
  /\ redirectResponse = [status |-> 302, location |-> "https://signed"]
  /\ readyAfter = 0
  /\ submitResponse = NoSubmitResponse
  /\ pollStatuses = <<>>
  /\ logged = {}
  /\ postResponse = NoSubmitResponse
  /\ goneAt = NoValue

NextAsync ==
  \/ SubmitAsyncScan
  \/ PollEnter
  \/ PollIteration

AsyncSpec == InitAsync /\ [][NextAsync]_vars
\* ================================================================== claims
CallsTo(to) == {i \in 1..Len(calls) : calls[i].to = to}
ScanServiceCalls ==
  CallsTo("sync_binary") \cup CallsTo("sync_download") \cup CallsTo("async_submit")
    \cup CallsTo("async_result")
Finished == pc \in {"done", "crashed"}
ValidSeconds(t) == t >= 1 /\ t <= 3600
\* timeout and polling interval are numbers in the documented range
SecondsInRange == ValidSeconds(inputs.timeout) /\ ValidSeconds(inputs.pollingInterval)
TenMiB == Sz(10, 0)

\* C1: with timeout and interval in [1,3600], when the result endpoint answers
\* 404 to the first k polls and 2xx to poll k+1, and poll k+1 starts before the
\* deadline, pollAsyncResult returns the outcome of that 2xx body after exactly
\* k sleeps.  Stated on the runs that end: a run that gave up with the timeout
\* error after k polls (all 404, the verdict ready for poll k+1) did so only
\* when poll k+1 would no longer start before the deadline, and a run that
\* returned an outcome made readyAfter + 1 polls and slept readyAfter times.
C1_ReturnsReadyVerdict ==
  SecondsInRange =>
    /\ (failMsg = MsgTimeout /\ Cardinality(CallsTo("async_result")) = readyAfter)
         => now - startTime >= TimeoutMs
    /\ (CallsTo("async_submit") # {} /\ result # NoResult)
         => /\ Cardinality(CallsTo("async_result")) = readyAfter + 1
            /\ sleeps = readyAfter

\* C2: the poll-timeout failure is reported only when at least the configured
\* timeout has elapsed since polling began (timeout and interval in [1,3600]).
C2_TimeoutNotEarly ==
  (failMsg = MsgTimeout /\ SecondsInRange) => now - startTime >= TimeoutMs

C4_TierBySize ==
  (handler \in {"artifact", "asset"} /\ downloadUrl # NoValue /\ pc # "tier") =>
    IF Bytes(size) < 209715200
    THEN /\ Cardinality(CallsTo("sync_download")) = 1
         /\ CallsTo("async_submit") = {}
         /\ CallsTo("async_result") = {}
    ELSE /\ Cardinality(CallsTo("async_submit")) = 1
         /\ CallsTo("sync_download") = {}
C4_Witness ==
  /\ handler = "artifact"
  /\ Bytes(size) = 209715200
  /\ CallsTo("async_submit") # {}
  /\ Finished

\* C5: for an existing local file whose stat and read succeed, size <= 10 MiB
\* (boundary included) ends with exactly one request to the scan service, the
\* sync-binary upload; size > 10 MiB ends failed with no request to the scan
\* service at all.
C5_LocalTier ==
  (handler = "local" /\ Finished /\ Len(fsOps) >= 2
     /\ failMsg \notin {MsgFileNotFound, MsgFsError}) =>
    IF SzLe(size, TenMiB)
    THEN CallsTo("sync_binary") = {1} /\ Len(calls) = 1
    ELSE failed = 1 /\ calls = <<>> /\ pc = "done"
C5_Witness ==
  /\ handler = "local"
  /\ pc = "done"
  /\ size = TenMiB
  /\ Bytes(TenMiB) = 10485760
  /\ CallsTo("sync_binary") = {1}
  /\ result.status = "clean"

\* C6: an artifact target with an absent or empty credential fails with the
\* missing-credential error and no network call of any kind is made.
C6_ArtifactNeedsToken ==
  (handler = "artifact" /\ inputs.token = "") =>
    /\ calls = <<>>
    /\ pc \in {"artifact", "done"}
    /\ pc = "done" => (failed = 1 /\ failMsg = MsgTokenRequired)
C6_Witness ==
  handler = "artifact" /\ inputs.token = "" /\ pc = "done" /\ failed = 1

\* the redirect adapter has received a response
RedirectAnswered == redirectResponse # NoResponse
RedirectStatus == redirectResponse.status >= 300 /\ redirectResponse.status <= 399

\* C7 as stated: a 3xx with a Location header returns that Location value, a
\* 3xx without one fails with the missing-redirect-target error, any other
\* status fails with the redirect-expected error and returns no URL (shown on
\* runs whose timeout and interval are in range).
C7_RedirectMappingAsStated ==
  (RedirectAnswered /\ SecondsInRange) =>
    /\ (RedirectStatus /\ redirectResponse.location # NoValue)
         => downloadUrl = redirectResponse.location
    /\ (RedirectStatus /\ redirectResponse.location = NoValue)
         => (failMsg = MsgNoLocation /\ downloadUrl = NoValue)
    /\ ~RedirectStatus => (failMsg = MsgExpectedRedirect /\ downloadUrl = NoValue)

\* C7 amended: a 3xx with a non-empty Location value returns exactly that
\* value; a 3xx whose Location is absent or empty fails with the
\* missing-redirect-target error; any status outside 300..399 fails with the
\* redirect-expected error and returns no URL.
C7_RedirectMapping ==
  RedirectAnswered =>
    /\ (RedirectStatus /\ redirectResponse.location \notin {NoValue, ""})
         => (downloadUrl = redirectResponse.location /\ failMsg # MsgNoLocation
               /\ failMsg # MsgExpectedRedirect)
    /\ (RedirectStatus /\ redirectResponse.location \in {NoValue, ""})
         => (failMsg = MsgNoLocation /\ downloadUrl = NoValue /\ pc = "done")
    /\ ~RedirectStatus
         => (failMsg = MsgExpectedRedirect /\ downloadUrl = NoValue /\ pc = "done")
C7_Witness ==
  /\ redirectResponse = [status |-> 302, location |-> "https://signed"]
  /\ downloadUrl = "https://signed"

\* C8: an outcome with status infected marks the run failed exactly when
\* fail-on-infected is true, and in both cases the status and the finding are
\* reported as outputs (shown on runs whose timeout and interval are in range).
C8_InfectedOutcome ==
  (Finished /\ result.status = "infected" /\ SecondsInRange) =>
    /\ FailOnInfected => failed = 1
    /\ ~FailOnInfected => failed = 0
    /\ outputs.status = "infected"
    /\ Truthy(result.finding) => outputs.finding = result.finding

\* C9: an outcome with status "no" never marks the run failed (core.setFailed
\* is not called), whatever the flag, the target kind and the tier.
C9_UnscannableNeverFails ==
  result.status = "no" => (failed = 0 /\ failMsg = NoValue)
C9_Witness ==
  /\ result.status = "no"
  /\ FailOnInfected
  /\ pc = "done"
  /\ outputs.status = "no"
  /\ failed = 0

\* C10: with zero or with two or more targets set, getInputs fails with a
\* configuration error and the run is marked failed before any filesystem
\* access or network call; with exactly one set, the handler run dispatches is
\* the one of that target.
C10_ExactlyOneTarget ==
  /\ InputCount(inputs) # 1 =>
       /\ handler = "none" /\ fsOps = <<>> /\ calls = <<>>
       /\ pc \in {"start", "done"}
       /\ pc = "done" => (failed = 1 /\ failMsg \in ConfigMessages)
  /\ (InputCount(inputs) = 1 /\ handler # "none") =>
       /\ handler = "local" <=> inputs.localFilePath # ""
       /\ handler = "artifact" <=> inputs.artifactId # ""
       /\ handler = "asset" <=> inputs.releaseAssetId # ""
C10_Witness ==
  /\ InputCount(inputs) = 2
  /\ pc = "done"
  /\ failed = 1
  /\ failMsg = MsgManyTargets

\* C11: a request of a URL-based tier (sync download, async submit) carries the
\* download header Authorization: Bearer <token> exactly when a credential is
\* present, and the direct upload never carries the forwarded credential.
C11_BearerForwarded ==
  SecondsInRange =>
    \A i \in 1..Len(calls) :
      /\ calls[i].to \in {"sync_download", "async_submit"} =>
           (calls[i].auth = "Bearer " \o inputs.token <=> Truthy(inputs.token))
      /\ calls[i].to = "sync_binary" => calls[i].auth = NoValue

\* C13: for a release asset the URL handed to redirect resolution is the
\* asset's API url; the browser download URL is never dereferenced and never
\* sent to the scan service.
C13_AssetApiUrl ==
  /\ \A i \in 1..Len(calls) : calls[i].url # BrowserDownloadUrl
  /\ downloadUrl # BrowserDownloadUrl
  /\ handler = "asset" => \A i \in CallsTo("redirect") : calls[i].url = AssetUrl
C13_Witness ==
  /\ handler = "asset"
  /\ \E i \in CallsTo("redirect") : calls[i].url = AssetUrl
  /\ \E i \in CallsTo("sync_download") : calls[i].url = "https://signed"
  /\ Finished

\* C14: a finished run has either set all the outputs of its outcome, or it is
\* marked failed with no output set; a response without a size never leaves
\* the status output set, the file-size output unset and no failure reported
\* (shown on runs whose timeout and interval are in range).
C14_NoPartialOutcome ==
  (Finished /\ SecondsInRange) =>
    /\ \/ outputs.status # NoValue /\ outputs.fileSize # NoValue
       \/ failed >= 1 /\ outputs = NoOutputs
    /\ ~(outputs.status # NoValue /\ outputs.fileSize = NoValue /\ failed = 0)

\* C15: no error escapes run() uncaught, and no run reports failure more than
\* once (shown on runs whose timeout and interval are in range).
C15_ErrorsCaughtOnce ==
  SecondsInRange => (pc # "crashed" /\ failed <= 1)

\* C16: whenever getInputs has returned, timeout and polling interval are
\* integers in [1,3600], so pollAsyncResult is never entered with a value out
\* of range or not a number.
C16_SecondsValidated ==
  (pc = "dispatch" \/ handler # "none") => SecondsInRange

\* a response the scan service documents: a finding comes with infected or
\* unscannable files only, and an infected file names its finding
DocumentedBody(r) ==
  /\ r.status = "infected" => Truthy(r.finding)
  /\ r.status = "clean" => ~Truthy(r.finding)

\* C17: on a finished run that obtained a response, the finding output is
\* present exactly when the outcome is infected or unscannable with a reason,
\* the real-file-type output exactly when the response reported a file type,
\* and the status output equals the response status (shown for documented
\* responses on runs whose timeout and interval are in range).
C17_OutputsMirrorResponse ==
  (Finished /\ result # NoResult /\ SecondsInRange /\ DocumentedBody(result)) =>
    /\ outputs.finding # NoValue <=>
         (result.status = "infected" \/ (result.status = "no" /\ Truthy(result.finding)))
    /\ outputs.realFileType # NoValue <=> Truthy(result.realfiletype)
    /\ outputs.status = result.status

\* C12: submitAsyncScan accepts 201 and 204 and treats every non-2xx status as
\* a fatal scan-service error; after a failed submission no GET is sent to the
\* result endpoint; an accepted submission yields no verdict by itself (a
\* verdict of the async tier comes from an answered GET only).
C12_SubmitOutcome ==
  LET s == submitResponse IN
  /\ (~s.neterr /\ s.status \in {201, 204}) => failMsg # MsgAsyncApi
  /\ (~s.neterr /\ s.status # 0 /\ ~Ok(s.status)) =>
       (pc = "done" /\ failed = 1 /\ failMsg = MsgAsyncApi)
  /\ (s.neterr \/ (s.status # 0 /\ ~Ok(s.status))) =>
       (CallsTo("async_result") = {} /\ pollStatuses = <<>> /\ result = NoResult)
  /\ pc \in {"poll_enter", "poll"} => result = NoResult
  /\ (CallsTo("async_submit") # {} /\ result # NoResult) => CallsTo("async_result") # {}
C12_Witness ==
  /\ submitResponse = [neterr |-> FALSE, status |-> 404]
  /\ failMsg = MsgAsyncApi
  /\ pc = "done"
  /\ CallsTo("async_result") = {}

\* the expressions whose text holds the API key or the bearer token
SecretBearing ==
  {"apiKey", "token", "options.token", "downloadHeaders", "downloadHeaders.Authorization",
   "request.download_headers", "JSON.stringify(request)", "headers"}

PollTimes == [k \in 1..Len(pollStatuses) |->
               calls[CHOOSE i \in CallsTo("async_result") :
                       Cardinality({j \in CallsTo("async_result") : j <= i}) = k].at]

\* C19: in pollAsyncResult a poll response that is neither 404 nor 2xx ends
\* the loop at once with the result-API error: it is the last GET, no sleep
\* follows it and nothing is returned.
C19_ErrorAbortsLoop ==
  \A k \in 1..Len(pollStatuses) :
    (pollStatuses[k] \notin {404, NetworkError} /\ ~Ok(pollStatuses[k])) =>
      /\ k = Len(pollStatuses)
      /\ Cardinality(CallsTo("async_result")) = k
      /\ pc = "done" /\ failed = 1 /\ failMsg = MsgResultApi
      /\ result = NoResult
      /\ sleeps = k - 1
      /\ now - PollTimes[k] \in FetchDurations
C19_Witness ==
  /\ Len(pollStatuses) = 2
  /\ pollStatuses[1] = 404
  /\ pollStatuses[2] = 500
  /\ pc = "done"
  /\ failMsg = MsgResultApi

\* C20: the poll loop never busy-spins: every GET but the last was answered
\* 404, one sleep was taken per 404 and none otherwise, and between two
\* consecutive GETs lies one full sleep of the polling interval (an interval
\* in [1,3600]): no less than the interval, no more than one interval and
\* one fetch.
C20_OneSleepPerPoll ==
  /\ Len(pollStatuses) = Cardinality(CallsTo("async_result"))
  /\ \A k \in 1..(Len(pollStatuses) - 1) : pollStatuses[k] = 404
  /\ sleeps = Cardinality({k \in 1..Len(pollStatuses) : pollStatuses[k] = 404})
  /\ ValidSeconds(inputs.pollingInterval) =>
       \A k \in 1..(Len(pollStatuses) - 1) :
         /\ PollTimes[k + 1] - PollTimes[k] >= PollingIntervalMs
         /\ PollTimes[k + 1] - PollTimes[k] <= PollingIntervalMs + SlowFetchMs
C20_Witness ==
  /\ Len(pollStatuses) = 3
  /\ sleeps = 2
  /\ ValidSeconds(inputs.pollingInterval)
  /\ PollTimes[2] - PollTimes[1] = PollingIntervalMs

\* the POSTs sent to the scan service
ScanPosts ==
  CallsTo("sync_binary") \cup CallsTo("sync_download") \cup CallsTo("async_submit")

\* C21: a run sends at most one POST to the scan service, and after a non-2xx
\* answer or a network error on that POST the run has failed and no further
\* request of any kind goes to the scan service.
C21_PostAtMostOnce ==
  /\ Cardinality(ScanPosts) <= 1
  /\ (postResponse.neterr \/ (postResponse.status # 0 /\ ~Ok(postResponse.status))) =>
       /\ pc = "done" /\ failed = 1
       /\ result = NoResult
       /\ Cardinality(ScanServiceCalls) = 1
       /\ calls[Len(calls)].to \in {"sync_binary", "sync_download", "async_submit"}
C21_Witness ==
  /\ CallsTo("sync_binary") # {}
  /\ postResponse = [neterr |-> FALSE, status |-> 500]
  /\ pc = "done"
  /\ failMsg = MsgScanApi

\* the hosting-API call that fetches the metadata of the run's target
MetadataCall == IF handler = "artifact" THEN "get_artifact" ELSE "get_release_asset"

\* C22: for an artifact or a release asset the requests go out in the order
\* metadata fetch, redirect resolution, scan request, result polls (async tier
\* only); the download_url of the scan request is the Location the redirect
\* resolution of this run received, never the metadata URL; when the metadata
\* fetch or the redirect resolution fails, no scan request is sent.
C22_UrlTargetOrder ==
  handler \in {"artifact", "asset"} =>
    /\ \A i \in 1..Len(calls) :
         calls[i].to = CASE i = 1 -> MetadataCall
                         [] i = 2 -> "redirect"
                         [] i = 3 -> IF UsesSyncDownload THEN "sync_download"
                                     ELSE "async_submit"
                         [] OTHER -> "async_result"
    /\ Len(calls) > 3 => calls[3].to = "async_submit"
    /\ \A i \in CallsTo("sync_download") \cup CallsTo("async_submit") :
         /\ calls[i].url = redirectResponse.location
         /\ calls[i].url \notin {NoValue, ArchiveDownloadUrl, AssetUrl, BrowserDownloadUrl}
    /\ failMsg \in {MsgHostingApi, MsgNoLocation, MsgExpectedRedirect, MsgTokenRequired}
         => ScanServiceCalls = {}
    /\ downloadUrl = NoValue => ScanServiceCalls = {}
C22_Witness ==
  /\ handler = "artifact"
  /\ Len(calls) = 3
  /\ calls[1].to = "get_artifact"
  /\ calls[2].to = "redirect"
  /\ calls[3].to = "async_submit"
  /\ calls[3].url = "https://signed"
  /\ redirectResponse.location = "https://signed"

\* C23: getActualDownloadUrl sends exactly one request per call and never
\* retries: whatever the answer or the network error, the run holds one
\* request of the adapter, to the metadata URL, and none to the redirect
\* target.
C23_OneRedirectRequest ==
  /\ Cardinality(CallsTo("redirect")) <= 1
  /\ \A i \in CallsTo("redirect") : calls[i].url = MetadataUrl /\ i = 2
  /\ (handler \in {"artifact", "asset"} /\ Len(calls) >= 2) =>
       Cardinality(CallsTo("redirect")) = 1
  /\ (redirectResponse # NoResponse \/ pc \in {"tier", "poll_enter", "poll"}) =>
       Cardinality(CallsTo("redirect")) = 1
C23_Witness ==
  /\ redirectResponse = [status |-> 302, location |-> "https://signed"]
  /\ Cardinality(CallsTo("redirect")) = 1
  /\ pc = "tier"

\* the run has reported an outcome: every output the response provides is set
OutcomeReported == outputs.status # NoValue /\ outputs.fileSize # NoValue
\* the run has reported a failure
FailureReported == failed >= 1

\* C24: every run ends in a terminal state in which the outcome or a failure
\* is reported, the poll loop included.  The safety half: a run that can take
\* no further step has reported the outcome or a failure (shown on runs whose
\* timeout and interval are in range).
C24_EndsReported ==
  (SecondsInRange /\ ~ENABLED Next) => (OutcomeReported \/ FailureReported)

\* C25: a run generates one trace id, with its one async submission, and every
\* GET to the result endpoint carries exactly the trace id sent in the body of
\* that submission.
C25_SameTraceId ==
  /\ Cardinality(CallsTo("async_submit")) <= 1
  /\ CallsTo("async_submit") = {} => traceId = NoValue
  /\ \A j \in CallsTo("async_submit") : calls[j].trace = traceId /\ traceId \in TraceIds
  /\ \A i \in CallsTo("async_result") :
       \E j \in CallsTo("async_submit") : j < i /\ calls[i].trace = calls[j].trace
C25_Witness ==
  /\ Cardinality(CallsTo("async_submit")) = 1
  /\ Cardinality(CallsTo("async_result")) = 2
  /\ \A i \in CallsTo("async_result") : calls[i].trace = "uuid-b"

\* C26: a local file larger than 10 MiB fails the run with the error whose
\* message says that local files cannot be accessed by the scanner and must be
\* uploaded as a release asset or artifact first, and with no other message.
C26_LocalTooLargeMessage ==
  (handler = "local" /\ Finished /\ SzGt(size, TenMiB) /\ SecondsInRange) =>
    (failed = 1 /\ failMsg = MsgLocalTooLarge)

\* C27 as stated: a local file that is absent, at the existence check or at
\* the stat or read after it, fails the run with the not-found error and no
\* request is sent to the scan service (shown on runs whose timeout and
\* interval are in range).
C27_AbsentFileNotFoundAsStated ==
  (goneAt # NoValue /\ SecondsInRange) =>
    /\ pc = "done" /\ failed = 1
    /\ failMsg = MsgFileNotFound
    /\ ScanServiceCalls = {}

\* C27 amended: a local file absent at the existence check fails the run with
\* the File not found error; a file that disappears before the stat or the
\* read fails the run with the filesystem's own ENOENT error; in every case
\* the run is marked failed once, nothing further is read and no request is
\* sent to the scan service.
C27_AbsentFileFails ==
  goneAt # NoValue =>
    /\ pc = "done" /\ failed = 1
    /\ failMsg = (IF goneAt = "access" THEN MsgFileNotFound ELSE MsgFsError)
    /\ fsOps[Len(fsOps)] = goneAt
    /\ calls = <<>>
    /\ result = NoResult
C27_Witness ==
  /\ goneAt = "readFile"
  /\ fsOps = <<"access", "stat", "readFile">>
  /\ failMsg = MsgFsError
  /\ pc = "done"

\* C28: the seconds named by the poll-timeout error are the time elapsed since
\* polling began when the loop gave up (timeout and interval in [1,3600]).
C28_TimeoutReportsElapsed ==
  (failMsg = MsgTimeout /\ SecondsInRange) =>
    TimeoutReportedSeconds = (now - startTime) \div 1000

\* requests of the hosting API and of the redirect adapter
HostingCalls ==
  CallsTo("get_artifact") \cup CallsTo("get_release_asset") \cup CallsTo("redirect")

\* C29: a run uses one transport tier: with a sync-binary or sync-download
\* request sent there is no async submit, no result GET and no trace id; with
\* an async submit sent there is no sync request; a local-file run sends
\* nothing to the hosting API or through the redirect adapter.
C29_OneTier ==
  /\ (CallsTo("sync_binary") \cup CallsTo("sync_download") # {}) =>
       /\ CallsTo("async_submit") = {} /\ CallsTo("async_result") = {}
       /\ traceId = NoValue
  /\ CallsTo("async_submit") # {} =>
       (CallsTo("sync_binary") = {} /\ CallsTo("sync_download") = {})
  /\ ~(CallsTo("sync_binary") # {} /\ CallsTo("sync_download") # {})
  /\ handler = "local" =>
       /\ HostingCalls = {}
       /\ CallsTo("sync_download") = {} /\ CallsTo("async_submit") = {}
  /\ handler \in {"artifact", "asset"} => (CallsTo("sync_binary") = {} /\ fsOps = <<>>)
C29_Witness ==
  /\ handler = "local"
  /\ CallsTo("sync_binary") = {1}
  /\ result.status = "infected"
  /\ pc = "done"

\* C30: what readFileAndCheckSize returns is consistent: the buffer has the
\* length of the returned size and at most 10 MiB, also when the file changes
\* between stat and read.
C30_BufferMatchesSize ==
  (handler = "local" /\ SecondsInRange
     /\ (pc = "local_tier" \/ CallsTo("sync_binary") # {})) =>
    (bufLen = size /\ SzLe(bufLen, TenMiB))
====
